---- MODULE Spec2Model ----
(***************************************************************************)
(* The in-memory leaderboard store of backend/index.go: rating buckets    *)
(* with atomic counters, the published snapshot, the rank sweep, the       *)
(* prefix index and the background mutator and publisher loops.            *)
(*                                                                         *)
(* Strings are sequences of bytes (0..255), compared bytewise as Go does.  *)
(* User ids are 0-based as in the code; a Go slice s is a sequence whose   *)
(* element s[i] is the sequence's element i + 1.                           *)
(***************************************************************************)
EXTENDS Integers, Sequences, FiniteSets, TLC

VARIABLES
    users,          \* Store.users: id -> [ID, Username]
    ratings,        \* Store.ratings: id -> current rating (atomic int32)
    usernameLower,  \* Store.usernameLower: id -> lower-cased name
    usernameIndex,  \* Store.usernameIndex: sorted (UsernameLower, ID) pairs
    ratingCounts,   \* Store.ratingCounts: rating -> atomic counter
    totalUsers,     \* Store.totalUsers
    bucketMu,       \* Store.bucketMu: Free or the name of the holder
    ratingBuckets,  \* Store.ratingBuckets: rating -> sequence of ids
    bucketIndex,    \* Store.bucketIndex: id -> 0-based position in its bucket
    lastUpdate,     \* Store.lastUpdate: instant of the last mutator stamp
    snapshot,       \* Store.snapshot: address of the published id list
    heap,           \* backing arrays of the snapshot lists: address -> list
    now,            \* the wall clock, read by time.Now()
    mut,            \* the updating thread: StartRandomUpdates / updateUserRating
    pub,            \* the publisher thread: StartSnapshotLoop / RefreshSnapshot
    rd,             \* the reader thread: rank / LeaderboardPage / SnapshotIDs
    reply           \* the value returned by the last completed call

storeVars == <<users, ratings, usernameLower, usernameIndex, ratingCounts,
               totalUsers, bucketMu, ratingBuckets, bucketIndex>>
vars == <<users, ratings, usernameLower, usernameIndex, ratingCounts,
          totalUsers, bucketMu, ratingBuckets, bucketIndex, lastUpdate,
          snapshot, heap, now, mut, pub, rd, reply>>

----------------------------------------------------------------------------
(* Program constants *)

minRating == 100
maxRating == 5000
DefaultLimit == 20
MaxDelta == 50

(* Bounds of the model *)

NumUsers == 3         \* users of a generated seed list (sequential runs)
ConcUsers == 2        \* users of a seed list of the concurrent runs
SearchUsers == 3      \* users of a seed list of the search runs
UpdatesPerTick == 2   \* updatesPerTick: pairs of one mutator batch
MaxTime == 1          \* ticks of the mutator's ticker that are modelled
MaxCalls == 2         \* direct updateUserRating calls of a sequential run

(***************************************************************************)
(* The rating window of a run: the ratings its users may occupy, chosen    *)
(* with the seeds.  ratingCounts and ratingBuckets are kept for these      *)
(* ratings only (their DOMAIN is the window): every other counter of the   *)
(* code stays 0 and every other bucket stays empty, because the inputs     *)
(* (seeds, direct calls, mutator pairs) are drawn so that no user ever     *)
(* gets a legal rating outside the window.                                 *)
(***************************************************************************)
InWindow(counts, r) == r \in DOMAIN counts \/ r < minRating \/ r > maxRating

Free == "free"
NoReply == [op |-> "none"]

----------------------------------------------------------------------------
(* Strings *)

Space == 32
Tab == 9
AsciiSpace == {Tab, 10, 11, 12, 13, Space}
UpperA == 65
UpperZ == 90
CaseGap == 32
InvalidByte == 255
RuneErrorBytes == <<239, 191, 189>>

\* Go's string comparison a < b: bytewise lexicographic.
RECURSIVE StrLess(_, _)
StrLess(a, b) ==
    IF b = <<>> THEN FALSE
    ELSE IF a = <<>> THEN TRUE
    ELSE IF Head(a) < Head(b) THEN TRUE
    ELSE IF Head(a) > Head(b) THEN FALSE
    ELSE StrLess(Tail(a), Tail(b))

StrGeq(a, b) == ~StrLess(a, b)

HasPrefix(s, p) == Len(s) >= Len(p) /\ SubSeq(s, 1, Len(p)) = p

\* A lowering that copies the byte 0xFF instead of replacing it.
LowerByteKeepInvalid(b) ==
    IF b >= UpperA /\ b <= UpperZ THEN <<b + CaseGap>> ELSE <<b>>

\* One rune of strings.ToLower over the modelled bytes: an ASCII upper-case
\* letter is lowered; the byte 0xFF (never valid UTF-8) is decoded as
\* utf8.RuneError and written back as U+FFFD; any other byte (ASCII, or part
\* of the encoding of U+FFFD) is kept.
LowerByte(b) ==
    IF b >= UpperA /\ b <= UpperZ THEN <<b + CaseGap>>
    ELSE IF b = InvalidByte THEN RuneErrorBytes
    ELSE <<b>>

RECURSIVE ToLower(_)
ToLower(s) ==
    IF s = <<>> THEN <<>> ELSE LowerByte(Head(s)) \o ToLower(Tail(s))

RECURSIVE TrimLeft(_)
TrimLeft(s) ==
    IF s # <<>> /\ Head(s) \in AsciiSpace THEN TrimLeft(Tail(s)) ELSE s

RECURSIVE TrimRight(_)
TrimRight(s) ==
    IF s # <<>> /\ s[Len(s)] \in AsciiSpace THEN TrimRight(SubSeq(s, 1, Len(s) - 1))
    ELSE s

TrimSpace(s) == TrimRight(TrimLeft(s))

----------------------------------------------------------------------------
(* Pure helpers of index.go *)

clampRatingNoUpper(value) == IF value < minRating THEN minRating ELSE value

clampRating(value) ==
    IF value < minRating THEN minRating
    ELSE IF value > maxRating THEN maxRating
    ELSE value

\* The page count rounded down instead of up.
calcTotalPagesFloor(total, limit) ==
    IF total <= 0 \/ limit <= 0 THEN 0 ELSE total \div limit

calcTotalPages(total, limit) ==
    IF total <= 0 \/ limit <= 0 THEN 0 ELSE (total + limit - 1) \div limit

\* The page raised to 1 but not lowered to the last page.
clampPageNoUpper(page, totalPages) == IF page < 1 THEN 1 ELSE page

clampPage(page, totalPages) ==
    LET p == IF page < 1 THEN 1 ELSE page
    IN  IF totalPages > 0 /\ p > totalPages THEN totalPages ELSE p

Ids(n) == 0 .. (n - 1)

\* The less function of the usernameIndex sort.
IndexLess(a, b) ==
    IF a.UsernameLower = b.UsernameLower THEN a.ID < b.ID
    ELSE StrLess(a.UsernameLower, b.UsernameLower)

\* sort.Slice on at most 12 elements is an insertion sort: each element is
\* swapped towards the front while it is less than its predecessor.
RECURSIVE InsertIndexEntry(_, _)
InsertIndexEntry(s, x) ==
    IF s # <<>> /\ IndexLess(x, s[Len(s)])
    THEN Append(InsertIndexEntry(SubSeq(s, 1, Len(s) - 1), x), s[Len(s)])
    ELSE Append(s, x)

\* The index left in id order.
SortIndexKeeps(s) == s

RECURSIVE SortIndex(_)
SortIndex(s) ==
    IF s = <<>> THEN <<>>
    ELSE InsertIndexEntry(SortIndex(SubSeq(s, 1, Len(s) - 1)), s[Len(s)])

\* A less function that orders nothing: the bucket keeps its order.
BucketLessNever(lower, a, b) == FALSE

\* The less function of the bucket sort of buildSnapshot.
BucketLess(lower, a, b) == StrLess(lower[a], lower[b])

RECURSIVE SortInsert(_, _, _)
SortInsert(lower, s, x) ==
    IF s # <<>> /\ BucketLess(lower, x, s[Len(s)])
    THEN Append(SortInsert(lower, SubSeq(s, 1, Len(s) - 1), x), s[Len(s)])
    ELSE Append(s, x)

\* A sort whose order of equal names varies from one build to the next:
\* the ids are inserted back to front in every other build.
RECURSIVE SortBucketVarying(_, _)
SortBucketVarying(lower, s) ==
    IF s = <<>> THEN <<>>
    ELSE IF snapshot = 0
    THEN SortInsert(lower, SortBucketVarying(lower, SubSeq(s, 1, Len(s) - 1)), s[Len(s)])
    ELSE SortInsert(lower, SortBucketVarying(lower, Tail(s)), Head(s))

RECURSIVE SortBucket(_, _)
SortBucket(lower, s) ==
    IF s = <<>> THEN <<>>
    ELSE SortInsert(lower, SortBucket(lower, SubSeq(s, 1, Len(s) - 1)), s[Len(s)])

----------------------------------------------------------------------------
(* The store: NewStore *)

MaxOf(S) == CHOOSE x \in S : \A y \in S : y <= x
MinOf(S) == CHOOSE x \in S : \A y \in S : x <= y

\* s.ratingBuckets[rating-minRating]; a rating outside the modelled ones has
\* an empty bucket and a zero counter.
BucketAt(buckets, r) == IF r \in DOMAIN buckets THEN buckets[r] ELSE <<>>
CountAt(counts, r) == IF r \in DOMAIN counts THEN counts[r] ELSE 0

EmptyStore(n, window) ==
    [users         |-> [id \in Ids(n) |-> [ID |-> id, Username |-> <<>>]],
     ratings       |-> [id \in Ids(n) |-> 0],
     usernameLower |-> [id \in Ids(n) |-> <<>>],
     usernameIndex |-> [i \in 1 .. n |-> [UsernameLower |-> <<>>, ID |-> 0]],
     ratingBuckets |-> [r \in window |-> <<>>],
     bucketIndex   |-> [id \in Ids(n) |-> 0],
     ratingCounts  |-> [r \in window |-> 0],
     totalUsers    |-> n]

\* The loop "for id, seed := range seeds" of NewStore.
RECURSIVE SeedLoop(_, _, _)
SeedLoop(seeds, id, st) ==
    IF id >= Len(seeds) THEN st
    ELSE LET seed   == seeds[id + 1]
             rating == clampRating(seed.Rating)
             lower  == ToLower(seed.Username)
         IN  SeedLoop(seeds, id + 1,
                 [st EXCEPT
                    !.users[id] = [ID |-> id, Username |-> seed.Username],
                    !.ratings[id] = rating,
                    !.usernameLower[id] = lower,
                    !.usernameIndex[id + 1] = [UsernameLower |-> lower, ID |-> id],
                    !.bucketIndex[id] = Len(BucketAt(st.ratingBuckets, rating)),
                    !.ratingBuckets = [r \in DOMAIN @ |->
                                          IF r = rating THEN Append(@[r], id) ELSE @[r]],
                    !.ratingCounts = [r \in DOMAIN @ |->
                                          IF r = rating THEN @[r] + 1 ELSE @[r]]])

NewStore(seeds, window) ==
    LET st == SeedLoop(seeds, 0, EmptyStore(Len(seeds), window))
    IN  [st EXCEPT !.usernameIndex = SortIndex(@)]

----------------------------------------------------------------------------
(* rank *)

RatingsAbove(counts, r) == {k \in DOMAIN counts : k > r}

\* A dense ranking: every occupied rating above counts once.
RankSweepDense(counts, S, above) ==
    above + Cardinality({k \in S : counts[k] > 0})

\* The loop of rank: current runs upwards from rating + 1 to maxRating,
\* adding each counter; S holds the modelled ratings still to be visited.
RECURSIVE RankSweep(_, _, _)
RankSweep(counts, S, above) ==
    IF S = {} THEN above
    ELSE LET current == MinOf(S)
         IN  RankSweep(counts, S \ {current}, above + counts[current])

\* The sweep started at the rating itself instead of one above it.
RankStartInclusive(counts, rating) == {k \in DOMAIN counts : k >= clampRating(rating)}

\* current := rating + 1 after the clamp.
RankStart(counts, rating) == RatingsAbove(counts, clampRating(rating))

Rank(counts, rating) == RankSweep(counts, RankStart(counts, rating), 0) + 1

----------------------------------------------------------------------------
(* buildSnapshot, RefreshSnapshot, SnapshotIDs *)

\* ids of one bucket as buildSnapshot appends them: a bucket of one id as
\* it is, a longer one copied and sorted by usernameLower.
BucketIds(lower, bucket) ==
    IF Len(bucket) > 1 THEN SortBucket(lower, bucket) ELSE bucket

\* The loop run upwards from minRating.
RECURSIVE BuildLoopUp(_, _, _)
BuildLoopUp(buckets, lower, S) ==
    IF S = {} THEN <<>>
    ELSE LET rating == MinOf(S)
         IN  BucketIds(lower, buckets[rating]) \o BuildLoopUp(buckets, lower, S \ {rating})

\* The loop of buildSnapshot: rating runs downwards from maxRating.
RECURSIVE BuildLoop(_, _, _)
BuildLoop(buckets, lower, S) ==
    IF S = {} THEN <<>>
    ELSE LET rating == MaxOf(S)
         IN  BucketIds(lower, buckets[rating]) \o BuildLoop(buckets, lower, S \ {rating})

buildSnapshot(buckets, lower) == BuildLoop(buckets, lower, DOMAIN buckets)

NumAddrs == 3
Addrs == 0 .. (NumAddrs - 1)
NoAddr == -1

\* make([]int, 0, totalUsers): a backing array no one else refers to.
AllocReuse(live, published) == published

Alloc(live, published) == MinOf(Addrs \ live)

\* The backing arrays the build touches besides the one it made: the array
\* of the bucket of a rating, and the copy that is sorted.
BucketAddr(rating) == -rating
CopyAddr == -2
BucketAddrs == {BucketAddr(rating) : rating \in minRating .. maxRating}

\* ids := bucket, or for a longer bucket append([]int(nil), bucket...):
\* the array ids points into.
IdsAddr(rating, bucket) ==
    IF Len(bucket) > 1 THEN CopyAddr ELSE BucketAddr(rating)

\* An append that hands back the bucket's own slice.
AppendAddrShares(dst, src) == IF src \in BucketAddrs THEN src ELSE dst

\* snapshot = append(snapshot, ids...): the elements are copied behind
\* those of snapshot, whose capacity totalUsers holds them; the result
\* points into snapshot's array.
AppendAddr(dst, src) == dst

\* The array the list returned by buildSnapshot points into, dst being the
\* array of make([]int, 0, s.totalUsers).
RECURSIVE SnapshotAddr(_, _, _)
SnapshotAddr(buckets, S, dst) ==
    IF S = {} THEN dst
    ELSE LET rating == MaxOf(S)
         IN  IF Len(buckets[rating]) = 0
             THEN SnapshotAddr(buckets, S \ {rating}, dst)
             ELSE SnapshotAddr(buckets, S \ {rating},
                               AppendAddr(dst, IdsAddr(rating, buckets[rating])))

\* The garbage collector: a backing array no reference reaches is gone.
Collect(h, live) == [a \in Addrs |-> IF a \in live THEN h[a] ELSE <<>>]

SnapshotIDs == heap[snapshot]

----------------------------------------------------------------------------
(* updateUserRating: the bucket move *)

SetAt(s, pos, x) == [s EXCEPT ![pos + 1] = x]

\* A removal that forgets the back-reference of the element it moves.
BucketRemoveNoBackref(buckets, index, id, oldRating) ==
    LET oldBucket == buckets[oldRating]
        moved     == SetAt(oldBucket, index[id], oldBucket[Len(oldBucket)])
    IN  [buckets |-> [buckets EXCEPT ![oldRating] = SubSeq(moved, 1, Len(moved) - 1)],
         index   |-> index]

\* Swap-with-last removal of id from Bucket[oldRating].
BucketRemove(buckets, index, id, oldRating) ==
    LET oldBucket == buckets[oldRating]
        oldPos    == index[id]
        lastID    == oldBucket[Len(oldBucket)]
        moved     == SetAt(oldBucket, oldPos, lastID)
    IN  [buckets |-> [buckets EXCEPT ![oldRating] = SubSeq(moved, 1, Len(moved) - 1)],
         index   |-> [index EXCEPT ![lastID] = oldPos]]

\* oldBucket[len(oldBucket)-1] on an empty bucket, or oldBucket[oldPos] with
\* oldPos beyond the bucket: index out of range.
RemovePanics(buckets, index, id, oldRating) ==
    Len(buckets[oldRating]) = 0 \/ index[id] >= Len(buckets[oldRating])

\* Append of id to Bucket[newRating].
BucketAppend(buckets, index, id, newRating) ==
    LET newBucket == buckets[newRating]
    IN  [buckets |-> [buckets EXCEPT ![newRating] = Append(newBucket, id)],
         index   |-> [index EXCEPT ![id] = Len(newBucket)]]

\* atomic.AddInt64 with the decrement of the old bucket's counter lost.
AddCountUpOnly(counts, r, d) == [counts EXCEPT ![r] = IF d > 0 THEN @ + d ELSE @]

AddCount(counts, r, d) == [counts EXCEPT ![r] = @ + d]

----------------------------------------------------------------------------
(* The updating thread, one step at a time *)

\* done: the loop's ctx is cancelled; tick: its ticker.C holds a tick.
PubIdle == [pc |-> "idle", buf |-> NoAddr, stored |-> FALSE, done |-> FALSE,
            tick |-> FALSE]

RdIdle == [pc |-> "idle", op |-> "none", ref |-> NoAddr, seen |-> <<>>, i |-> 0,
           end |-> 0, rating |-> 0, todo |-> {}, above |-> 0, rows |-> <<>>,
           overlap |-> 0, lo |-> 0, hi |-> 0]

Idle == [pc |-> "idle", id |-> 0, oldRating |-> 0, newRating |-> 0,
         left |-> 0, changed |-> FALSE, direct |-> FALSE, calls |-> 0,
         done |-> FALSE, tick |-> FALSE]

InFlightPcs == {"u_remove", "u_insert", "u_dec", "u_inc", "u_unlock", "u_store"}
InCallPcs == InFlightPcs \cup {"u_load", "u_lock"}

\* The reader's record of the updates that overlap its counter sweep.
NoteUpdate(r) ==
    IF r.pc = "sweep" THEN [r EXCEPT !.overlap = @ + 1] ELSE r

InBucket(buckets, r, id) == \E k \in 1 .. Len(buckets[r]) : buckets[r][k] = id

\* What a rank is compared with: for rank(r), 1 + the ids held by a bucket
\* above clamp(r); for a page row, 1 + the ids whose rating is above the
\* rating shown.
TrueRank(op, rating, buckets, rts) ==
    IF op = "rank"
    THEN 1 + Cardinality({id \in DOMAIN rts :
                             \E r \in DOMAIN buckets :
                                 r > clampRating(rating) /\ InBucket(buckets, r, id)})
    ELSE 1 + Cardinality({id \in DOMAIN rts : rts[id] > rating})

\* The reader's record of the least and greatest true rank during its sweep.
Track(r, buckets, rts) ==
    IF r.pc = "sweep"
    THEN LET t == TrueRank(r.op, r.rating, buckets, rts)
         IN  [r EXCEPT !.lo = IF t < @ THEN t ELSE @, !.hi = IF t > @ THEN t ELSE @]
    ELSE r

\* s.bucketMu.Lock() succeeds only on a free mutex.
CanLockAlways(mu) == TRUE

CanLock(mu) == mu = Free

\* A caller (a test, a handler) enters updateUserRating(id, newRating).
DirectCall(id, newRating) ==
    /\ mut.pc = "idle"
    /\ mut.calls < MaxCalls
    /\ mut' = [mut EXCEPT !.pc = "u_load", !.id = id, !.newRating = newRating,
                          !.direct = TRUE, !.calls = @ + 1]
    /\ UNCHANGED <<storeVars, lastUpdate, snapshot, heap, now, pub, rd, reply>>

\* return of updateUserRating: to the caller, or to the batch loop.
Returned(m) ==
    IF m.direct
    THEN [m EXCEPT !.pc = "idle", !.direct = FALSE, !.id = 0, !.oldRating = 0,
                   !.newRating = 0]
    ELSE [m EXCEPT !.pc = "batch", !.left = @ - 1, !.changed = TRUE, !.id = 0,
                   !.oldRating = 0, !.newRating = 0]

\* The load without the test for an unchanged rating.
UpdLoadNoTest ==
    /\ mut.pc = "u_load"
    /\ mut' = [mut EXCEPT !.pc = "u_lock", !.oldRating = ratings[mut.id]]
    /\ UNCHANGED <<storeVars, lastUpdate, snapshot, heap, now, pub, rd, reply>>

\* oldRating := load(ratings[id]); if oldRating == newRating { return }
UpdLoad ==
    /\ mut.pc = "u_load"
    /\ LET old == ratings[mut.id]
       IN  mut' = IF old = mut.newRating THEN Returned(mut)
                  ELSE [mut EXCEPT !.pc = "u_lock", !.oldRating = old]
    /\ UNCHANGED <<storeVars, lastUpdate, snapshot, heap, now, pub, rd, reply>>

\* The rating stored on entering the critical section instead of after it.
UpdLockStoresRating ==
    /\ mut.pc = "u_lock"
    /\ CanLock(bucketMu)
    /\ bucketMu' = "mutator"
    /\ ratings' = [ratings EXCEPT ![mut.id] = mut.newRating]
    /\ mut' = [mut EXCEPT !.pc = "u_remove"]
    /\ UNCHANGED <<users, usernameLower, usernameIndex, ratingCounts, totalUsers,
                   ratingBuckets, bucketIndex, lastUpdate, snapshot, heap, now,
                   pub, rd, reply>>

UpdLock ==
    /\ mut.pc = "u_lock"
    /\ CanLock(bucketMu)
    /\ bucketMu' = "mutator"
    /\ mut' = [mut EXCEPT !.pc = "u_remove"]
    /\ rd' = NoteUpdate(rd)
    /\ UNCHANGED <<users, ratings, usernameLower, usernameIndex, ratingCounts,
                   totalUsers, ratingBuckets, bucketIndex, lastUpdate, snapshot,
                   heap, now, pub, reply>>

\* lines 309-315; an index out of range panics before anything is written,
\* and the panic of a goroutine ends the process with bucketMu still held.
UpdRemove ==
    /\ mut.pc = "u_remove"
    /\ IF RemovePanics(ratingBuckets, bucketIndex, mut.id, mut.oldRating)
       THEN /\ mut' = [mut EXCEPT !.pc = "panic"]
            /\ UNCHANGED <<ratingBuckets, bucketIndex, rd>>
       ELSE /\ LET res == BucketRemove(ratingBuckets, bucketIndex, mut.id,
                                       mut.oldRating)
               IN  /\ ratingBuckets' = res.buckets
                   /\ bucketIndex' = res.index
            /\ mut' = [mut EXCEPT !.pc = "u_insert"]
            /\ rd' = Track(rd, ratingBuckets', ratings)
    /\ UNCHANGED <<users, ratings, usernameLower, usernameIndex, ratingCounts,
                   totalUsers, bucketMu, lastUpdate, snapshot, heap, now, pub,
                   reply>>

UpdInsert ==
    /\ mut.pc = "u_insert"
    /\ LET res == BucketAppend(ratingBuckets, bucketIndex, mut.id, mut.newRating)
       IN  /\ ratingBuckets' = res.buckets
           /\ bucketIndex' = res.index
    /\ mut' = [mut EXCEPT !.pc = "u_dec"]
    /\ rd' = Track(rd, ratingBuckets', ratings)
    /\ UNCHANGED <<users, ratings, usernameLower, usernameIndex, ratingCounts,
                   totalUsers, bucketMu, lastUpdate, snapshot, heap, now, pub,
                   reply>>

UpdDec ==
    /\ mut.pc = "u_dec"
    /\ ratingCounts' = AddCount(ratingCounts, mut.oldRating, -1)
    /\ mut' = [mut EXCEPT !.pc = "u_inc"]
    /\ UNCHANGED <<users, ratings, usernameLower, usernameIndex, totalUsers,
                   bucketMu, ratingBuckets, bucketIndex, lastUpdate, snapshot,
                   heap, now, pub, rd, reply>>

UpdInc ==
    /\ mut.pc = "u_inc"
    /\ ratingCounts' = AddCount(ratingCounts, mut.newRating, 1)
    /\ mut' = [mut EXCEPT !.pc = "u_unlock"]
    /\ UNCHANGED <<users, ratings, usernameLower, usernameIndex, totalUsers,
                   bucketMu, ratingBuckets, bucketIndex, lastUpdate, snapshot,
                   heap, now, pub, rd, reply>>

\* The call going on without releasing bucketMu.
UpdUnlockKeeps ==
    /\ mut.pc = "u_unlock"
    /\ mut' = [mut EXCEPT !.pc = "u_store"]
    /\ UNCHANGED <<storeVars, lastUpdate, snapshot, heap, now, pub, rd, reply>>

UpdUnlock ==
    /\ mut.pc = "u_unlock"
    /\ bucketMu' = Free
    /\ mut' = [mut EXCEPT !.pc = "u_store"]
    /\ UNCHANGED <<users, ratings, usernameLower, usernameIndex, ratingCounts,
                   totalUsers, ratingBuckets, bucketIndex, lastUpdate, snapshot,
                   heap, now, pub, rd, reply>>

UpdStore ==
    /\ mut.pc = "u_store"
    /\ ratings' = [ratings EXCEPT ![mut.id] = mut.newRating]
    /\ mut' = Returned(mut)
    /\ rd' = Track(rd, ratingBuckets, ratings')
    /\ UNCHANGED <<users, usernameLower, usernameIndex, ratingCounts, totalUsers,
                   bucketMu, ratingBuckets, bucketIndex, lastUpdate, snapshot,
                   heap, now, pub, reply>>

UpdStep ==
    UpdLoad \/ UpdLock \/ UpdRemove \/ UpdInsert \/ UpdDec \/ UpdInc
        \/ UpdUnlock \/ UpdStore

----------------------------------------------------------------------------
(* Seeds and initial states *)

alice == <<97, 108, 105, 99, 101>>
bob   == <<98, 111, 98>>
carol == <<99, 97, 114, 111, 108>>
dave  == <<100, 97, 118, 101>>
eve   == <<101, 118, 101>>
Bob   == <<66, 111, 98>>
al    == <<97, 108>>
Al    == <<65, 108>>

Seed(name, rating) == [Username |-> name, Rating |-> rating]

\* The five users of the end-to-end scenarios.
FixtureSeeds ==
    <<Seed(alice, 1500), Seed(bob, 1500), Seed(carol, 1700), Seed(dave, 900),
      Seed(eve, 5200)>>

\* Display names by id of the generated seed lists; Bob and bob differ only
\* in letter case.
NamePool == <<Bob, bob, al, Al, eve, dave, carol>>

GenSeeds(n, seedRatings) ==
    {[i \in 1 .. n |-> Seed(NamePool[i], f[i])] : f \in [1 .. n -> seedRatings]}

\* The state holding store st, with list published and every thread at rest.
InitState(st, list, stored) ==
        /\ users = st.users
        /\ ratings = st.ratings
        /\ usernameLower = st.usernameLower
        /\ usernameIndex = st.usernameIndex
        /\ ratingCounts = st.ratingCounts
        /\ totalUsers = st.totalUsers
        /\ bucketMu = Free
        /\ ratingBuckets = st.ratingBuckets
        /\ bucketIndex = st.bucketIndex
        /\ lastUpdate = 0
        /\ snapshot = 0
        /\ heap = [a \in Addrs |-> IF a = 0 THEN list ELSE <<>>]
        /\ now = 0
        /\ mut = Idle
        /\ pub = [PubIdle EXCEPT !.stored = stored]
        /\ rd = RdIdle
        /\ reply = NoReply

\* NewStore: the published list is the empty one.
InitWith(seeds, window) == InitState(NewStore(seeds, window), <<>>, FALSE)

----------------------------------------------------------------------------
(* SpecCalls: a caller issuing updateUserRating calls, step by step *)

CallSeedRatings == {50, 1500, 5200}
CallWindow == {100, 1500, 1700, 5000}

InitCalls ==
    \E seeds \in GenSeeds(NumUsers, CallSeedRatings) : InitWith(seeds, CallWindow)

NextCalls ==
    \/ \E id \in Ids(totalUsers), r \in DOMAIN ratingCounts : DirectCall(id, r)
    \/ UpdStep

SpecCalls == InitCalls /\ [][NextCalls]_vars

RECURSIVE SumOver(_, _)
SumOver(f, S) ==
    IF S = {} THEN 0
    ELSE LET x == CHOOSE y \in S : TRUE IN f[x] + SumOver(f, S \ {x})

Quiescent == mut.pc \notin InCallPcs

\* C1: once no updateUserRating call is in progress, the counters sum to N
\* and every counter equals the length of its bucket.
C1_CountsMatchBuckets ==
    Quiescent =>
        /\ SumOver(ratingCounts, DOMAIN ratingCounts) = totalUsers
        /\ \A r \in DOMAIN ratingCounts : ratingCounts[r] = Len(ratingBuckets[r])

\* Two calls have completed, one of them a swap-with-last removal from a
\* bucket that held several ids, and the store is at rest.
C1_Witness ==
    /\ mut.pc = "idle"
    /\ mut.calls >= 2
    /\ \E id \in Ids(totalUsers) : ratings[id] \notin {100, 1500, 5000}
    /\ \E r \in DOMAIN ratingBuckets :
          Len(ratingBuckets[r]) >= 2 /\ ratingBuckets[r][1] # 0
                          /\ ratingBuckets[r][1] > ratingBuckets[r][2]

----------------------------------------------------------------------------
(* SpecSeq: the handlers called one after another, each run to completion *)

\* updateUserRating as one call.
UpdateUserRating(id, newRating) ==
    LET old == ratings[id]
        rem == BucketRemove(ratingBuckets, bucketIndex, id, old)
        app == BucketAppend(rem.buckets, rem.index, id, newRating)
    IN  IF old = newRating
        THEN UNCHANGED <<ratings, ratingBuckets, bucketIndex, ratingCounts>>
        ELSE /\ ratingBuckets' = app.buckets
             /\ bucketIndex' = app.index
             /\ ratingCounts' = AddCount(AddCount(ratingCounts, old, -1), newRating, 1)
             /\ ratings' = [ratings EXCEPT ![id] = newRating]

SeqUpdate(id, newRating) ==
    /\ mut.calls < MaxCalls
    /\ UpdateUserRating(id, newRating)
    /\ mut' = [mut EXCEPT !.calls = @ + 1]
    /\ reply' = [op |-> "update"]
    /\ UNCHANGED <<users, usernameLower, usernameIndex, totalUsers, bucketMu,
                   lastUpdate, snapshot, heap, now, pub, rd>>

\* RefreshSnapshot as one call: s.snapshot.Store(s.buildSnapshot()).
SeqRefresh ==
    LET buf == SnapshotAddr(ratingBuckets, DOMAIN ratingBuckets,
                            Alloc({snapshot}, snapshot))
    IN  /\ heap' = Collect([heap EXCEPT ![buf] = buildSnapshot(ratingBuckets, usernameLower)],
                           {buf})
        /\ snapshot' = buf
        /\ reply' = [op |-> "refresh"]
        /\ UNCHANGED <<storeVars, lastUpdate, now, mut, pub, rd>>

SeqRank(rating) ==
    /\ reply' = [op |-> "rank", rating |-> rating, rank |-> Rank(ratingCounts, rating)]
    /\ UNCHANGED <<storeVars, lastUpdate, snapshot, heap, now, mut, pub, rd>>

\* One entry of a page: live rating and live rank of the id.
Entry(id) ==
    [Rank |-> Rank(ratingCounts, ratings[id]), Username |-> users[id].Username,
     Rating |-> ratings[id]]

\* The offset counted from page 0 instead of page 1.
PageOffsetFromZero(pg, lim) == pg * lim

\* offset := (page - 1) * limit
PageOffset(pg, lim) == (pg - 1) * lim

LeaderboardPage(page, limit) ==
    LET lim    == IF limit <= 0 THEN DefaultLimit ELSE limit
        pg     == IF page <= 0 THEN 1 ELSE page
        snap   == SnapshotIDs
        offset == PageOffset(pg, lim)
        end    == IF offset + lim > Len(snap) THEN Len(snap) ELSE offset + lim
    IN  IF Len(snap) = 0 \/ offset >= Len(snap) THEN <<>>
        ELSE [i \in 1 .. (end - offset) |-> Entry(snap[offset + i])]

SeqLeaderboardPage(page, limit) ==
    /\ reply' = [op |-> "leaderboard", page |-> page, limit |-> limit,
                 entries |-> LeaderboardPage(page, limit)]
    /\ UNCHANGED <<storeVars, lastUpdate, snapshot, heap, now, mut, pub, rd>>

SeqSeedRatings == {1500, 1700}
SeqTargets == {900, 1500, 1700}
SeqWindow == {100, 900, 1500, 1700, 5000}
RankProbes == {50, 100, 1500, 1700, 5000, 6000}
PageProbes == {0, 1, 3}
LimitProbes == {0, 2}

InitSeq ==
    \E seeds \in {FixtureSeeds} \cup GenSeeds(NumUsers, SeqSeedRatings) :
        InitWith(seeds, SeqWindow)

NextSeq ==
    \/ \E id \in Ids(totalUsers), r \in SeqTargets : SeqUpdate(id, r)
    \/ SeqRefresh
    \/ \E r \in RankProbes : SeqRank(r)
    \/ \E page \in PageProbes, limit \in LimitProbes : SeqLeaderboardPage(page, limit)

SpecSeq == InitSeq /\ [][NextSeq]_vars

IsFixture == totalUsers = 5 /\ users[4].Username = eve

NumAbove(r) == Cardinality({id \in Ids(totalUsers) : ratings[id] > r})

Clamped(r) == IF r < 100 THEN 100 ELSE IF r > 5000 THEN 5000 ELSE r

\* C2: with no update in progress, rank(r) is 1 plus the number of ids rated
\* strictly above clamp(r, 100, 5000); on the five seeded users rank(1500) = 3,
\* rank(5000) = 1 and rank(100) = 6.
C2_RankCountsStrictlyAbove ==
    reply.op = "rank" =>
        /\ reply.rank = 1 + NumAbove(Clamped(reply.rating))
        /\ (IsFixture /\ mut.calls = 0) =>
              /\ reply.rating = 1500 => reply.rank = 3
              /\ reply.rating = 5000 => reply.rank = 1
              /\ reply.rating = 100 => reply.rank = 6

\* rank(1500) has returned 3 on the five seeded users.
C2_Witness ==
    /\ IsFixture /\ mut.calls = 0
    /\ reply.op = "rank" /\ reply.rating = 1500 /\ reply.rank = 3
    /\ NumAbove(1500) = 2

\* The key order (rating descending, usernameLower ascending, id ascending).
SnapshotBefore(a, b) ==
    \/ ratings[a] > ratings[b]
    \/ /\ ratings[a] = ratings[b]
       /\ \/ StrLess(usernameLower[a], usernameLower[b])
          \/ usernameLower[a] = usernameLower[b] /\ a < b

IsPermutation(s) ==
    /\ Len(s) = totalUsers
    /\ \A id \in Ids(totalUsers) : Cardinality({i \in 1 .. Len(s) : s[i] = id}) = 1

\* C3: after RefreshSnapshot at quiescence the published snapshot is a
\* permutation of [0,N) ordered by rating descending, then usernameLower
\* ascending, then id ascending, also for equal lower-cased names.
C3_SnapshotSortedWithIdTieBreak ==
    reply.op = "refresh" =>
        /\ IsPermutation(SnapshotIDs)
        /\ \A i, j \in 1 .. Len(SnapshotIDs) :
              i < j => SnapshotBefore(SnapshotIDs[i], SnapshotIDs[j])

----------------------------------------------------------------------------
(* The mutator loop: StartRandomUpdates *)

\* Deltas of the modelled pairs, out of source.Intn(101) - 50.
Deltas == {-MaxDelta, -20, 0, MaxDelta}

\* case <-ticker.C: a new batch of updatesPerTick pairs.
MutTick ==
    /\ mut.pc = "idle"
    /\ now < MaxTime
    /\ now' = now + 1
    /\ mut' = [mut EXCEPT !.pc = "batch", !.left = UpdatesPerTick, !.changed = FALSE]
    /\ UNCHANGED <<storeVars, lastUpdate, snapshot, heap, pub, rd, reply>>

\* The pair handled without the test newRating != oldRating.
MutItemAlwaysCalls(id, delta) ==
    /\ mut.pc = "batch"
    /\ mut.left > 0
    /\ InWindow(ratingCounts, clampRating(ratings[id] + delta))
    /\ mut' = [mut EXCEPT !.pc = "u_load", !.id = id,
                          !.newRating = clampRating(ratings[id] + delta),
                          !.direct = FALSE]
    /\ UNCHANGED <<storeVars, lastUpdate, snapshot, heap, now, pub, rd, reply>>

\* One pair (id, delta) of the batch: the new rating is clamped, and
\* updateUserRating is called only when it differs from the old one.
MutItem(id, delta) ==
    /\ mut.pc = "batch"
    /\ mut.left > 0
    /\ LET oldRating == ratings[id]
           newRating == clampRating(oldRating + delta)
       IN  /\ InWindow(ratingCounts, newRating)
           /\ mut' = IF newRating # oldRating
                     THEN [mut EXCEPT !.pc = "u_load", !.id = id,
                                      !.newRating = newRating, !.direct = FALSE]
                     ELSE [mut EXCEPT !.left = @ - 1]
    /\ UNCHANGED <<storeVars, lastUpdate, snapshot, heap, now, pub, rd, reply>>

\* The stamp written at the end of every batch.
MutStampAlways ==
    /\ mut.pc = "batch"
    /\ mut.left = 0
    /\ lastUpdate' = now
    /\ mut' = [mut EXCEPT !.pc = "idle", !.changed = FALSE]
    /\ UNCHANGED <<storeVars, snapshot, heap, now, pub, rd, reply>>

\* if changed { s.lastUpdate.Store(time.Now()) }, then back to the select.
MutStamp ==
    /\ mut.pc = "batch"
    /\ mut.left = 0
    /\ lastUpdate' = IF mut.changed THEN now ELSE lastUpdate
    /\ mut' = [mut EXCEPT !.pc = "idle", !.changed = FALSE]
    /\ UNCHANGED <<storeVars, snapshot, heap, now, pub, rd, reply>>

Mutator ==
    \/ MutTick
    \/ \E id \in Ids(totalUsers), delta \in Deltas : MutItem(id, delta)
    \/ MutStamp
    \/ UpdStep

----------------------------------------------------------------------------
(* The publisher: StartSnapshotLoop calling RefreshSnapshot *)

Refs(p, r) == {p.buf, r.ref} \ {NoAddr}

\* case <-ticker.C: RefreshSnapshot is called and reaches s.bucketMu.Lock().
PubTick ==
    /\ pub.pc = "idle"
    /\ pub' = [pub EXCEPT !.pc = "lock"]
    /\ UNCHANGED <<storeVars, lastUpdate, snapshot, heap, now, mut, rd, reply>>

\* buildSnapshot: the list is allocated, bucketMu is taken and the buckets
\* are scanned from maxRating down into the list.
PubBuild ==
    /\ pub.pc = "lock"
    /\ CanLock(bucketMu)
    /\ bucketMu' = "publisher"
    /\ LET buf == SnapshotAddr(ratingBuckets, DOMAIN ratingBuckets,
                               Alloc({snapshot} \cup Refs(pub, rd), snapshot))
       IN  /\ heap' = [heap EXCEPT ![buf] = buildSnapshot(ratingBuckets, usernameLower)]
           /\ pub' = [pub EXCEPT !.pc = "unlock", !.buf = buf]
    /\ UNCHANGED <<users, ratings, usernameLower, usernameIndex, ratingCounts,
                   totalUsers, ratingBuckets, bucketIndex, lastUpdate, snapshot,
                   now, mut, rd, reply>>

\* defer s.bucketMu.Unlock(), run when buildSnapshot returns.
PubUnlock ==
    /\ pub.pc = "unlock"
    /\ bucketMu' = Free
    /\ pub' = [pub EXCEPT !.pc = "store"]
    /\ UNCHANGED <<users, ratings, usernameLower, usernameIndex, ratingCounts,
                   totalUsers, ratingBuckets, bucketIndex, lastUpdate, snapshot,
                   heap, now, mut, rd, reply>>

\* s.snapshot.Store(list): the pointer swap.
PubStore ==
    /\ pub.pc = "store"
    /\ snapshot' = pub.buf
    /\ pub' = [pub EXCEPT !.pc = "idle", !.buf = NoAddr, !.stored = TRUE]
    /\ heap' = Collect(heap, {pub.buf} \cup Refs(pub', rd))
    /\ UNCHANGED <<storeVars, lastUpdate, now, mut, rd, reply>>

Publisher == PubTick \/ PubBuild \/ PubUnlock \/ PubStore

----------------------------------------------------------------------------
(* The reader: SnapshotIDs, rank and LeaderboardPage, one load at a time *)

\* The reader enters the counter sweep of rank(rating).
StartSweep(r, op, rating) ==
    LET t == TrueRank(op, rating, ratingBuckets, ratings)
    IN  [r EXCEPT !.pc = "sweep", !.op = op, !.rating = rating,
                  !.todo = RankStart(ratingCounts, rating), !.above = 0,
                  !.overlap = IF mut.pc \in InFlightPcs THEN 1 ELSE 0,
                  !.lo = t, !.hi = t]

\* SnapshotIDs: one atomic load of the published pointer.
RdSnapshotIDs ==
    /\ rd.pc = "idle"
    /\ rd' = [RdIdle EXCEPT !.pc = "hold", !.op = "snapshot", !.ref = snapshot,
                            !.seen = heap[snapshot]]
    /\ UNCHANGED <<storeVars, lastUpdate, snapshot, heap, now, mut, pub, reply>>

RdRank(rating) ==
    /\ rd.pc = "idle"
    /\ rd' = StartSweep(RdIdle, "rank", rating)
    /\ UNCHANGED <<storeVars, lastUpdate, snapshot, heap, now, mut, pub, reply>>

\* LeaderboardPage up to the slice snapshot[offset:end].
RdPage(page, limit) ==
    /\ rd.pc = "idle"
    /\ LET lim    == IF limit <= 0 THEN DefaultLimit ELSE limit
           pg     == IF page <= 0 THEN 1 ELSE page
           snap   == heap[snapshot]
           offset == PageOffset(pg, lim)
           end    == IF offset + lim > Len(snap) THEN Len(snap) ELSE offset + lim
       IN  rd' = IF Len(snap) = 0 \/ offset >= Len(snap)
                 THEN [RdIdle EXCEPT !.pc = "done", !.op = "page"]
                 ELSE [RdIdle EXCEPT !.pc = "row", !.op = "page", !.ref = snapshot,
                                     !.seen = snap, !.i = offset, !.end = end]
    /\ UNCHANGED <<storeVars, lastUpdate, snapshot, heap, now, mut, pub, reply>>

\* The id of the row being read: snapshot[i] in LeaderboardPage,
\* usernameIndex[i].ID in SearchPage.
RowId(r) ==
    IF r.op = "search" THEN usernameIndex[r.i + 1].ID ELSE heap[r.ref][r.i + 1]

\* The next id of the slice: its rating is loaded and rank(rating) entered.
RdRow ==
    /\ rd.pc = "row"
    /\ rd' = IF rd.i >= rd.end THEN [rd EXCEPT !.pc = "done"]
             ELSE StartSweep(rd, rd.op, ratings[RowId(rd)])
    /\ UNCHANGED <<storeVars, lastUpdate, snapshot, heap, now, mut, pub, reply>>

\* A sweep that takes bucketMu for each counter it loads.
RdSweepLocked ==
    /\ rd.pc = "sweep"
    /\ rd.todo # {}
    /\ CanLock(bucketMu)
    /\ LET current == MinOf(rd.todo)
       IN  rd' = [rd EXCEPT !.todo = @ \ {current}, !.above = @ + ratingCounts[current]]
    /\ UNCHANGED <<storeVars, lastUpdate, snapshot, heap, now, mut, pub, reply>>

\* above += atomic.LoadInt64(&s.ratingCounts[current-minRating])
RdSweep ==
    /\ rd.pc = "sweep"
    /\ rd.todo # {}
    /\ LET current == MinOf(rd.todo)
       IN  rd' = [rd EXCEPT !.todo = @ \ {current}, !.above = @ + ratingCounts[current]]
    /\ UNCHANGED <<storeVars, lastUpdate, snapshot, heap, now, mut, pub, reply>>

\* return int(above) + 1: to the caller of rank, or into the page's entry.
RdSweepEnd ==
    /\ rd.pc = "sweep"
    /\ rd.todo = {}
    /\ LET entry == [Rank |-> rd.above + 1, Rating |-> rd.rating,
                     Username |-> users[RowId(rd)].Username]
       IN  rd' = IF rd.op = "rank"
                 THEN [rd EXCEPT !.pc = "done", !.rows = <<[Rank |-> rd.above + 1]>>]
                 ELSE [rd EXCEPT !.pc = "row", !.rows = Append(@, entry), !.i = @ + 1]
    /\ UNCHANGED <<storeVars, lastUpdate, snapshot, heap, now, mut, pub, reply>>

\* The call returns and the caller drops the list it held.
RdReturn ==
    /\ rd.pc \in {"hold", "done"}
    /\ rd' = RdIdle
    /\ heap' = Collect(heap, {snapshot} \cup Refs(pub, rd'))
    /\ UNCHANGED <<storeVars, lastUpdate, snapshot, now, mut, pub, reply>>

ConcRankProbes == {50, 4980}
ConcPageProbes == {<<1, 2>>, <<2, 1>>}

ListReader == RdSnapshotIDs \/ RdReturn

RankReader ==
    \/ \E r \in ConcRankProbes : RdRank(r)
    \/ RdSweep
    \/ RdSweepEnd
    \/ RdReturn

PageReader ==
    \/ \E probe \in ConcPageProbes : RdPage(probe[1], probe[2])
    \/ RdRow
    \/ RdSweep
    \/ RdSweepEnd
    \/ RdReturn

----------------------------------------------------------------------------
(* The concurrent runs: the mutator with the publisher and a reader *)

ConcSeedRatings == {50, 4980}
ListSeedRatings == {50, 5200}
ConcWindow == {100, 4980, 5000}

\* After NewStore.
Init ==
    \E seeds \in GenSeeds(ConcUsers, ListSeedRatings) : InitWith(seeds, ConcWindow)

\* buildApp: NewStore, then RefreshSnapshot, before the loops are started.
InitApp ==
    \E seeds \in GenSeeds(ConcUsers, ConcSeedRatings) :
        LET st == NewStore(seeds, ConcWindow)
        IN  InitState(st, buildSnapshot(st.ratingBuckets, st.usernameLower), TRUE)

\* SpecRank: the mutator and a reader calling rank.
NextRank == Mutator \/ RankReader

SpecRank == InitApp /\ [][NextRank]_vars

\* SpecPage: the mutator and a reader calling LeaderboardPage.
NextPage == Mutator \/ PageReader

SpecPage == InitApp /\ [][NextPage]_vars

\* Spec: the mutator, the publisher and a reader of the published list.
Next == Mutator \/ Publisher \/ ListReader

Spec == Init /\ [][Next]_vars

Legal(r) == r >= 100 /\ r <= 5000

\* C4: the published snapshot is empty (only before the first
\* RefreshSnapshot) or holds every id of [0,N) exactly once, and so does
\* every list a build has produced: no build sees an id in mid-move.
C4_SnapshotIsPermutation ==
    /\ \/ SnapshotIDs = <<>> /\ ~pub.stored
       \/ IsPermutation(SnapshotIDs)
    /\ pub.pc \in {"unlock", "store"} => IsPermutation(heap[pub.buf])

\* A build has completed while an updateUserRating call waits for bucketMu,
\* after an earlier list was published and the order has changed since.
C4_Witness ==
    /\ pub.pc = "unlock" /\ pub.stored
    /\ mut.pc = "u_lock"
    /\ IsPermutation(heap[pub.buf])
    /\ heap[pub.buf] # SnapshotIDs

\* C5: the list a reader obtained from SnapshotIDs is a complete published
\* list (the empty initial one or a permutation of [0,N)); it is never the
\* list a concurrent RefreshSnapshot is still building, and its contents
\* stay what they were when it was loaded.
C5_ReaderSeesWholeList ==
    rd.ref # NoAddr =>
        /\ rd.ref # pub.buf
        /\ heap[rd.ref] = rd.seen
        /\ rd.seen = <<>> \/ IsPermutation(rd.seen)

\* The reader still holds the previous list after RefreshSnapshot has
\* published a different one.
C5_Witness ==
    /\ rd.pc = "hold" /\ rd.ref # snapshot
    /\ IsPermutation(rd.seen)
    /\ IsPermutation(SnapshotIDs)
    /\ SnapshotIDs # rd.seen

\* C8: every rating lies in [100, 5000], and so does every new rating the
\* mutator hands to updateUserRating.
C8_RatingsInRange ==
    /\ \A id \in Ids(totalUsers) : Legal(ratings[id])
    /\ mut.pc \in InCallPcs => Legal(mut.newRating)
    /\ \A r \in DOMAIN ratingBuckets :
          \A k \in 1 .. Len(ratingBuckets[r]) : Legal(r)

\* A seed of 50 is stored as 100, a seed of 5200 was stored as 5000, and the
\* mutator has since turned that user's 4980 + 50 into 5000.
C8_Witness ==
    /\ \E id \in Ids(totalUsers) : ratings[id] = 100
    /\ mut.pc = "u_store" /\ mut.oldRating = 4980 /\ mut.newRating = 5000

RankReturned == rd.op = "rank" /\ rd.pc = "done"

RowEmitted == rd.op = "page" /\ rd.pc \in {"row", "done"} /\ Len(rd.rows) > 0

----------------------------------------------------------------------------
(* SpecSearch: SearchPage called on stores of every choice of names *)

\* sort.Search(n, f) with f(i) = index[i].UsernameLower >= target, positions
\* counted from 0: the binary search between i and j.
RECURSIVE Search(_, _, _, _)
Search(index, target, i, j) ==
    IF i >= j THEN i
    ELSE LET h == (i + j) \div 2
         IN  IF ~StrGeq(index[h + 1].UsernameLower, target)
             THEN Search(index, target, h + 1, j)
             ELSE Search(index, target, i, h)

\* The test for the empty prefix left out.
IsEmptyPrefixNever(prefix) == FALSE

\* if prefix == "" { return nil, 0, page, 0 }
IsEmptyPrefix(prefix) == prefix = <<>>

\* SearchPage, with the prefix and the two bounds it computed on the way.
SearchPage(query, page, limit) ==
    LET lim        == IF limit <= 0 THEN DefaultLimit ELSE limit
        pg         == IF page <= 0 THEN 1 ELSE page
        prefix     == ToLower(TrimSpace(query))
        n          == Len(usernameIndex)
        start      == Search(usernameIndex, prefix, 0, n)
        prefixHigh == Append(prefix, InvalidByte)
        end        == Search(usernameIndex, prefixHigh, 0, n)
        total      == end - start
        totalPages == calcTotalPages(total, lim)
        clamped    == clampPage(pg, totalPages)
        offset     == (clamped - 1) * lim
        startIdx   == start + offset
        endIdx     == IF startIdx + lim > end THEN end ELSE startIdx + lim
    IN  IF IsEmptyPrefix(prefix)
        THEN [results |-> <<>>, total |-> 0, page |-> pg, totalPages |-> 0,
              prefix |-> prefix, start |-> 0, end |-> 0]
        ELSE IF total = 0
        THEN [results |-> <<>>, total |-> 0, page |-> clamped,
              totalPages |-> totalPages, prefix |-> prefix,
              start |-> start, end |-> end]
        ELSE IF startIdx >= end
        THEN [results |-> <<>>, total |-> total, page |-> clamped,
              totalPages |-> totalPages, prefix |-> prefix,
              start |-> start, end |-> end]
        ELSE [results |-> [k \in 1 .. (endIdx - startIdx) |->
                              Entry(usernameIndex[startIdx + k].ID)],
              total |-> total, page |-> clamped, totalPages |-> totalPages,
              prefix |-> prefix, start |-> start, end |-> end]

\* One call per store: SearchPage changes nothing, so a second call would
\* start from the same store again.
SeqSearchPage(query, page, limit) ==
    /\ reply = NoReply
    /\ reply' = [op |-> "search", query |-> query, pageArg |-> page,
                 limitArg |-> limit, out |-> SearchPage(query, page, limit)]
    /\ UNCHANGED <<storeVars, lastUpdate, snapshot, heap, now, mut, pub, rd>>

al255 == al \o <<InvalidByte>>
ALICE == <<65, 76, 73, 67, 69>>

\* The names a user of a search store may carry: al is a prefix of alice,
\* Al and Bob fold to al and bob, and one name ends in the byte 0xFF.
SearchNames == {al, Al, alice, al255, bob, Bob}

SearchSeeds(n) ==
    {[i \in 1 .. n |-> Seed(f[i], IF i = 1 THEN 1700 ELSE 1500)] :
        f \in [1 .. n -> SearchNames]}

QueryProbes ==
    {<<>>, <<Space, Tab>>, al, <<Space>> \o Al \o <<Tab>>, <<97>>, <<65, Space>>,
     alice, ALICE, al255, bob, <<Tab>> \o Bob, <<122>>}
SearchPages == {0, 1, 2, 4}
SearchLimits == {0, 1, 2}

InitSearch ==
    \E seeds \in SearchSeeds(SearchUsers) : InitWith(seeds, SeqWindow)

NextSearch ==
    \E q \in QueryProbes, page \in SearchPages, limit \in SearchLimits :
        SeqSearchPage(q, page, limit)

SpecSearch == InitSearch /\ [][NextSearch]_vars

Searched == reply.op = "search" /\ reply.out.prefix # <<>>

IsMatch(i) == HasPrefix(usernameIndex[i].UsernameLower, reply.out.prefix)

\* C9: for the non-empty lower-case prefix p of a SearchPage call, the
\* positions [start, end) found by the two binary searches are exactly the
\* positions of usernameIndex whose usernameLower begins with p; they are
\* in (usernameLower, id) order and total = end - start counts the matches.
C9_PrefixRangeExact ==
    Searched =>
        /\ \A i \in 1 .. Len(usernameIndex) :
              IsMatch(i) <=> (reply.out.start < i /\ i <= reply.out.end)
        /\ reply.out.total = Cardinality({i \in 1 .. Len(usernameIndex) : IsMatch(i)})
        /\ \A i, j \in 1 .. Len(usernameIndex) :
              i < j =>
                 \/ StrLess(usernameIndex[i].UsernameLower, usernameIndex[j].UsernameLower)
                 \/ /\ usernameIndex[i].UsernameLower = usernameIndex[j].UsernameLower
                    /\ usernameIndex[i].ID < usernameIndex[j].ID

\* The prefix al is searched in a store that holds a name with al followed
\* by the byte 0xFF, a name equal to al up to case, and a name without the
\* prefix: two match, in the middle of the index.
C9_Witness ==
    /\ Searched /\ reply.out.prefix = al
    /\ \E id \in Ids(totalUsers) : users[id].Username = al255
    /\ \E id \in Ids(totalUsers) : users[id].Username = Al
    /\ \E id \in Ids(totalUsers) : users[id].Username = bob
    /\ reply.out.total = 2 /\ reply.out.end = 2

\* The entries of usernameIndex that begin with the prefix, in index order.
Matches == SelectSeq(usernameIndex, LAMBDA e : HasPrefix(e.UsernameLower, reply.out.prefix))

\* The query without white space and with its letters in upper case.
Fold(q) ==
    LET t == SelectSeq(q, LAMBDA b : b \notin {9, 10, 11, 12, 13, 32})
    IN  [i \in 1 .. Len(t) |-> IF t[i] >= 97 /\ t[i] <= 122 THEN t[i] - 32 ELSE t[i]]

EffLimit == IF reply.limitArg <= 0 THEN 20 ELSE reply.limitArg

RECURSIVE PagesUpTo(_)
PagesUpTo(k) ==
    IF k = 0 THEN <<>>
    ELSE PagesUpTo(k - 1) \o SearchPage(reply.query, k, reply.limitArg).results

\* C10: for a query with a non-empty prefix and at least one match,
\* SearchPage returns totalPages = ceil(total / limit), the page clamped to
\* [1, totalPages] and the matches at positions [offset, min(offset + limit,
\* total)) of the prefix range in index order; every variant of the query
\* in letter case or surrounding white space gets the same result, and pages
\* 1..totalPages together hold every match exactly once.
C10_SearchPagination ==
    (Searched /\ reply.out.total > 0) =>
        LET out    == reply.out
            offset == (out.page - 1) * EffLimit
            last   == IF offset + EffLimit > out.total THEN out.total
                      ELSE offset + EffLimit
        IN  /\ out.total = Len(Matches)
            /\ out.totalPages * EffLimit >= out.total
            /\ (out.totalPages - 1) * EffLimit < out.total
            /\ out.page >= 1 /\ out.page <= out.totalPages
            /\ reply.pageArg \in 1 .. out.totalPages => out.page = reply.pageArg
            /\ reply.pageArg > out.totalPages => out.page = out.totalPages
            /\ reply.pageArg < 1 => out.page = 1
            /\ Len(out.results) = last - offset
            /\ \A k \in 1 .. Len(out.results) :
                  /\ out.results[k].Username = users[Matches[offset + k].ID].Username
                  /\ out.results[k].Rating = ratings[Matches[offset + k].ID]
            /\ \A v \in QueryProbes :
                  Fold(v) = Fold(reply.query) =>
                      SearchPage(v, reply.pageArg, reply.limitArg) = out
            /\ LET all == PagesUpTo(out.totalPages)
               IN  /\ Len(all) = Len(Matches)
                   /\ \A k \in 1 .. Len(all) :
                         all[k].Username = users[Matches[k].ID].Username

\* A query in upper case with white space around it asks for a page past
\* the end: three matches at limit 2 make two pages, and the page is clamped
\* to the last, which holds the third match alone.
C10_Witness ==
    /\ Searched
    /\ reply.query = <<Space>> \o Al \o <<Tab>>
    /\ reply.limitArg = 2 /\ reply.pageArg = 4
    /\ reply.out.total = 3 /\ reply.out.totalPages = 2 /\ reply.out.page = 2
    /\ Len(reply.out.results) = 1

NoUserMatches(q) ==
    \A id \in Ids(totalUsers) : ~HasPrefix(Fold(users[id].Username), Fold(q))

\* C11: SearchPage with a query that is empty or only white space returns
\* no results, total 0 and totalPages 0 for every page and limit; a query
\* whose prefix no user name begins with returns no results and total 0.
C11_EmptyQueryOrNoMatch ==
    reply.op = "search" =>
        /\ Fold(reply.query) = <<>> =>
              /\ reply.out.results = <<>>
              /\ reply.out.total = 0
              /\ reply.out.totalPages = 0
        /\ NoUserMatches(reply.query) =>
              /\ reply.out.results = <<>>
              /\ reply.out.total = 0

\* A query of white space only was answered, for a page beyond the first.
C11_Witness ==
    /\ reply.op = "search"
    /\ reply.query = <<Space, Tab>>
    /\ reply.pageArg = 4 /\ reply.limitArg = 2
    /\ reply.out.total = 0 /\ reply.out.results = <<>>

\* The least number of pages of L entries that hold n entries.
PagesFor(n, L) == CHOOSE k \in 1 .. n : k * L >= n /\ (k - 1) * L < n

RECURSIVE BoardUpTo(_, _)
BoardUpTo(k, L) ==
    IF k = 0 THEN <<>> ELSE BoardUpTo(k - 1, L) \o LeaderboardPage(k, L)

\* C12: once a snapshot is published, for every limit L >= 1 the pages
\* LeaderboardPage(1, L) .. LeaderboardPage(ceil(N / L), L), read from one
\* state of the store, list the users in exactly the order of the published
\* snapshot, each id once.
C12_PagesConcatenateToSnapshot ==
    SnapshotIDs # <<>> =>
        \A L \in 1 .. (totalUsers + 1) :
            LET all == BoardUpTo(PagesFor(totalUsers, L), L)
            IN  /\ Len(all) = totalUsers
                /\ \A k \in 1 .. totalUsers :
                      /\ all[k].Username = users[SnapshotIDs[k]].Username
                      /\ all[k].Rating = ratings[SnapshotIDs[k]]

\* After an update and a refresh, the third page of two entries was read
\* from the five users of the fixture: it holds the last id of a snapshot
\* that is not in id order.
C12_Witness ==
    /\ IsFixture /\ mut.calls >= 1
    /\ reply.op = "leaderboard" /\ reply.page = 3 /\ reply.limit = 2
    /\ Len(reply.entries) = 1
    /\ reply.entries[1].Username = users[SnapshotIDs[5]].Username
    /\ SnapshotIDs[1] # 0 /\ SnapshotIDs[5] # 4

----------------------------------------------------------------------------
(* SpecHttp: the /leaderboard handler of buildApp on stores of every size *)

MaxLimit == 200

\* A query parameter is <<>> when absent or not a number, else <<n>>.
getQueryInt(raw, fallback) == IF raw = <<>> THEN fallback ELSE raw[1]

\* The limit defaulted but not capped.
clampLimitNoUpper(limit) == IF limit <= 0 THEN DefaultLimit ELSE limit

\* The handlers' two tests on limit.
clampLimit(limit) ==
    IF limit <= 0 THEN DefaultLimit
    ELSE IF limit > MaxLimit THEN MaxLimit
    ELSE limit

\* The /leaderboard handler: the LeaderboardResponse it writes.
LeaderboardHandler(rawPage, rawLimit) ==
    LET limit      == clampLimit(getQueryInt(rawLimit, DefaultLimit))
        totalPages == calcTotalPages(totalUsers, limit)
        page       == clampPage(getQueryInt(rawPage, 1), totalPages)
    IN  [UpdatedAt |-> lastUpdate, TotalUsers |-> totalUsers, Page |-> page,
         PageSize |-> limit, TotalPages |-> totalPages,
         Entries |-> LeaderboardPage(page, limit)]

GetLeaderboard(rawPage, rawLimit) ==
    /\ reply' = [op |-> "GET /leaderboard", rawPage |-> rawPage,
                 rawLimit |-> rawLimit,
                 resp |-> LeaderboardHandler(rawPage, rawLimit)]
    /\ UNCHANGED <<storeVars, lastUpdate, snapshot, heap, now, mut, pub, rd>>

HttpPages == {<<>>, <<-1>>, <<0>>, <<2>>, <<9>>}
HttpLimits == {<<>>, <<0>>, <<2>>, <<10000>>}
HttpSeedRatings == {1500, 1700}

\* buildApp: NewStore, then RefreshSnapshot, then the handlers are served.
InitHttp ==
    \E seeds \in {FixtureSeeds} \cup
                  UNION {GenSeeds(n, HttpSeedRatings) : n \in 1 .. NumUsers} :
        LET st == NewStore(seeds, SeqWindow)
        IN  InitState(st, buildSnapshot(st.ratingBuckets, st.usernameLower), TRUE)

NextHttp ==
    \E rawPage \in HttpPages, rawLimit \in HttpLimits :
        GetLeaderboard(rawPage, rawLimit)

SpecHttp == InitHttp /\ [][NextHttp]_vars

Served == reply.op = "GET /leaderboard"

\* The limit asked for, 20 when the parameter is absent.
AskedLimit == IF reply.rawLimit = <<>> THEN 20 ELSE reply.rawLimit[1]

\* The page asked for, 1 when the parameter is absent.
AskedPage == IF reply.rawPage = <<>> THEN 1 ELSE reply.rawPage[1]

\* C13: the /leaderboard response has page_size 20 for a non-positive limit,
\* 200 for a limit above 200 and the limit itself otherwise; page_size lies
\* in [1, 200] and the page carries at most page_size entries.
C13_LimitClamped ==
    Served =>
        /\ AskedLimit <= 0 => reply.resp.PageSize = 20
        /\ AskedLimit > 200 => reply.resp.PageSize = 200
        /\ AskedLimit \in 1 .. 200 => reply.resp.PageSize = AskedLimit
        /\ reply.resp.PageSize \in 1 .. 200
        /\ Len(reply.resp.Entries) <= reply.resp.PageSize

\* limit=10000 was served with page_size 200 and a page that is not empty.
C13_Witness ==
    /\ Served
    /\ reply.rawLimit = <<10000>>
    /\ reply.resp.PageSize = 200
    /\ reply.resp.Entries # <<>>

\* C14: the /leaderboard response has total_pages = ceil(N / page_size) and
\* the page clamped into [1, total_pages]: a page below 1 is served as page
\* 1 and a page above total_pages as the last page; with N > 0 and a
\* published snapshot the entries are the min(page_size, N - (page - 1) *
\* page_size) >= 1 ids of the snapshot from offset (page - 1) * page_size.
C14_PageClamped ==
    (Served /\ totalUsers > 0 /\ SnapshotIDs # <<>>) =>
        LET resp   == reply.resp
            offset == (resp.Page - 1) * resp.PageSize
            rest   == totalUsers - offset
        IN  /\ resp.TotalPages * resp.PageSize >= totalUsers
            /\ (resp.TotalPages - 1) * resp.PageSize < totalUsers
            /\ AskedPage < 1 => resp.Page = 1
            /\ AskedPage > resp.TotalPages => resp.Page = resp.TotalPages
            /\ AskedPage \in 1 .. resp.TotalPages => resp.Page = AskedPage
            /\ Len(resp.Entries) >= 1
            /\ Len(resp.Entries) = IF resp.PageSize < rest THEN resp.PageSize ELSE rest
            /\ \A k \in 1 .. Len(resp.Entries) :
                  resp.Entries[k].Username = users[SnapshotIDs[offset + k]].Username

\* page=9 with limit=2 over the five users of the fixture was served as the
\* third and last page, which holds one entry.
C14_Witness ==
    /\ Served /\ IsFixture
    /\ reply.rawPage = <<9>> /\ reply.rawLimit = <<2>>
    /\ reply.resp.TotalPages = 3 /\ reply.resp.Page = 3
    /\ Len(reply.resp.Entries) = 1

SameRatingCall == mut.pc = "u_load" /\ mut.newRating = ratings[mut.id]

\* C15: a call updateUserRating(id, rating[id]) returns at once: ratings,
\* ratingBuckets, bucketIndex and ratingCounts are unchanged and bucketMu is
\* not acquired.
C15_SameRatingIsNoOp ==
    [][SameRatingCall =>
          /\ mut'.pc = "idle"
          /\ bucketMu' = Free
          /\ UNCHANGED <<ratings, ratingBuckets, bucketIndex, ratingCounts, bucketMu>>]_vars

\* A second call asks for the rating 1700 that the first call gave the user.
C15_Witness ==
    /\ SameRatingCall
    /\ mut.calls = 2
    /\ mut.newRating = 1700
    /\ Len(ratingBuckets[1700]) >= 1

\* The pair (id, delta) cannot change the rating of id.
Saturates(id, delta) ==
    \/ delta = 0
    \/ delta > 0 /\ ratings[id] = 5000
    \/ delta < 0 /\ ratings[id] = 100

\* C16: when the mutator takes a pair (id, delta) whose clamped result is
\* the current rating (delta 0, a positive delta at 5000, a negative delta
\* at 100), it goes on to the next pair without calling updateUserRating:
\* ratings, buckets, back-references and counters are unchanged.
C16_SaturatedPairIsSkipped ==
    [][\A id \in Ids(totalUsers), delta \in Deltas :
          (Saturates(id, delta) /\ MutItem(id, delta)) =>
              /\ mut'.pc = "batch"
              /\ mut'.left = mut.left - 1
              /\ mut'.changed = mut.changed
              /\ UNCHANGED <<ratings, ratingBuckets, bucketIndex, ratingCounts,
                             bucketMu, lastUpdate>>]_vars

\* A whole batch went by without a call, in a store with a user at 100.
C16_Witness ==
    /\ mut.pc = "batch" /\ mut.left = 0 /\ ~mut.changed
    /\ now = 1
    /\ \E id \in Ids(totalUsers) : ratings[id] = 100

RankOf(id) == Rank(ratingCounts, ratings[id])

TiedWith(id) == {c \in Ids(totalUsers) : ratings[c] = ratings[id]}

\* C18: at rest, two ids with equal ratings have equal ranks, and the rank
\* of the next lower occupied rating is the rank of the tied group plus the
\* size of the group; the entries of a page show the same.
C18_TiesShareRanks ==
    /\ \A a, b \in Ids(totalUsers) :
          /\ ratings[a] = ratings[b] => RankOf(a) = RankOf(b)
          /\ (/\ ratings[a] > ratings[b]
              /\ \A c \in Ids(totalUsers) :
                    ~(ratings[c] > ratings[b] /\ ratings[c] < ratings[a]))
             => RankOf(b) = RankOf(a) + Cardinality(TiedWith(a))
    /\ reply.op = "leaderboard" =>
          \A i, j \in 1 .. Len(reply.entries) :
              /\ reply.entries[i].Rating = reply.entries[j].Rating
                    => reply.entries[i].Rank = reply.entries[j].Rank
              /\ reply.entries[i].Rating > reply.entries[j].Rating
                    => reply.entries[i].Rank < reply.entries[j].Rank

\* The whole fixture on one page: the two users at 1500 both have rank 3
\* and the user below them has rank 5.
C18_Witness ==
    /\ IsFixture
    /\ reply.op = "leaderboard" /\ Len(reply.entries) = 5
    /\ reply.entries[3].Rating = 1500 /\ reply.entries[3].Rank = 3
    /\ reply.entries[4].Rating = 1500 /\ reply.entries[4].Rank = 3
    /\ reply.entries[5].Rating = 900 /\ reply.entries[5].Rank = 5

\* The fixture after the single call updateUserRating(bob, 1700).
ScenarioB ==
    /\ IsFixture /\ mut.calls = 1
    /\ ratings = [id \in Ids(5) |-> <<1500, 1700, 1700, 900, 5000>>[id + 1]]

\* eve, bob, carol, alice, dave by id.
OrderB == <<4, 1, 2, 0, 3>>

PageB ==
    <<[Rank |-> 1, Username |-> eve, Rating |-> 5000],
      [Rank |-> 2, Username |-> bob, Rating |-> 1700],
      [Rank |-> 2, Username |-> carol, Rating |-> 1700],
      [Rank |-> 4, Username |-> alice, Rating |-> 1500],
      [Rank |-> 5, Username |-> dave, Rating |-> 900]>>

\* C19: from the seeds alice 1500, bob 1500, carol 1700, dave 900, eve 5200,
\* after updateUserRating(bob, 1700) a RefreshSnapshot publishes the order
\* eve, bob, carol, alice, dave, and the first leaderboard page read from it
\* lists these five with ranks 1, 2, 2, 4, 5.
C19_ScenarioB ==
    /\ [][(ScenarioB /\ reply'.op = "refresh") => heap'[snapshot'] = OrderB]_vars
    /\ [](/\ ScenarioB /\ SnapshotIDs = OrderB
          /\ reply.op = "leaderboard" /\ reply.page = 1 /\ reply.limit = 0
          => reply.entries = PageB)

\* The first page has been read after the update of bob and the refresh.
C19_Witness ==
    /\ ScenarioB /\ SnapshotIDs = OrderB
    /\ reply.op = "leaderboard" /\ reply.page = 1 /\ reply.limit = 0
    /\ Len(reply.entries) = 5
    /\ reply.entries[2].Username = bob /\ reply.entries[2].Rank = 2

----------------------------------------------------------------------------
(* SpecLive: the mutator and the publisher under fair scheduling *)

NextLive == Mutator \/ Publisher

\* Each goroutine that can run does run; sync.Mutex hands the lock to a
\* waiter that keeps being passed over (starvation mode), so a Lock that is
\* possible again and again succeeds.  The tickers need not fire.
Fairness ==
    /\ WF_vars(UpdLoad \/ UpdRemove \/ UpdInsert \/ UpdDec \/ UpdInc
                  \/ UpdUnlock \/ UpdStore)
    /\ SF_vars(UpdLock)
    /\ SF_vars(PubBuild)
    /\ WF_vars(PubUnlock \/ PubStore)

\* NewStore with one user fewer than the other concurrent runs.
InitLive ==
    \E seeds \in GenSeeds(ConcUsers - 1, ListSeedRatings) : InitWith(seeds, ConcWindow)

SpecLive == InitLive /\ [][NextLive]_vars /\ Fairness

MutatorHolds == mut.pc \in {"u_remove", "u_insert", "u_dec", "u_inc", "u_unlock"}

\* C20: bucketMu is held exactly by the task that is between its Lock and
\* its Unlock, so never by two tasks and never by a task that is about to
\* lock it; and a task waiting at Lock, the mutator or the publisher,
\* eventually holds bucketMu.
C20_NoDeadlock ==
    /\ [](/\ bucketMu = "mutator" <=> MutatorHolds
          /\ bucketMu = "publisher" <=> pub.pc = "unlock"
          /\ bucketMu \in {Free, "mutator", "publisher"})
    /\ (mut.pc = "u_lock") ~> MutatorHolds
    /\ (pub.pc = "lock") ~> (pub.pc = "unlock")

\* updateUserRating waits at Lock while a build holds bucketMu, after an
\* earlier build has been published.
C20_Witness ==
    /\ mut.pc = "u_lock"
    /\ bucketMu = "publisher" /\ pub.pc = "unlock"
    /\ pub.stored

----------------------------------------------------------------------------
(* SpecCancel: the two loops with their tickers and a cancellable ctx *)

\* ctx is cancelled: ctx.Done() of both loops is closed from now on.
Cancel ==
    /\ ~mut.done
    /\ mut' = [mut EXCEPT !.done = TRUE]
    /\ pub' = [pub EXCEPT !.done = TRUE]
    /\ UNCHANGED <<storeVars, lastUpdate, snapshot, heap, now, rd, reply>>

\* The ticker of StartRandomUpdates fires: ticker.C buffers one tick, also
\* while the loop is busy with a batch.
MutTickerFires ==
    /\ mut.pc # "returned"
    /\ ~mut.tick
    /\ now <= MaxTime
    /\ now' = now + 1
    /\ mut' = [mut EXCEPT !.tick = TRUE]
    /\ UNCHANGED <<storeVars, lastUpdate, snapshot, heap, pub, rd, reply>>

\* select takes case <-ticker.C, which it may whenever a tick is buffered,
\* whether or not ctx.Done() is ready too.
MutSelectTick ==
    /\ mut.pc = "idle"
    /\ mut.tick
    /\ mut' = [mut EXCEPT !.pc = "batch", !.left = UpdatesPerTick,
                          !.changed = FALSE, !.tick = FALSE]
    /\ UNCHANGED <<storeVars, lastUpdate, snapshot, heap, now, pub, rd, reply>>

\* select takes case <-ctx.Done(): return, and the deferred ticker.Stop().
MutSelectDone ==
    /\ mut.pc = "idle"
    /\ mut.done
    /\ mut' = [mut EXCEPT !.pc = "returned"]
    /\ UNCHANGED <<storeVars, lastUpdate, snapshot, heap, now, pub, rd, reply>>

\* StartRandomUpdates.
MutatorLoop ==
    \/ MutTickerFires
    \/ MutSelectTick
    \/ MutSelectDone
    \/ \E id \in Ids(totalUsers), delta \in Deltas : MutItem(id, delta)
    \/ MutStamp
    \/ UpdStep

\* The ticker of StartSnapshotLoop fires.
PubTickerFires ==
    /\ pub.pc # "returned"
    /\ ~pub.tick
    /\ pub' = [pub EXCEPT !.tick = TRUE]
    /\ UNCHANGED <<storeVars, lastUpdate, snapshot, heap, now, mut, rd, reply>>

\* select takes case <-ticker.C: RefreshSnapshot is called.
PubSelectTick ==
    /\ pub.pc = "idle"
    /\ pub.tick
    /\ pub' = [pub EXCEPT !.pc = "lock", !.tick = FALSE]
    /\ UNCHANGED <<storeVars, lastUpdate, snapshot, heap, now, mut, rd, reply>>

\* select takes case <-ctx.Done(): return.
PubSelectDone ==
    /\ pub.pc = "idle"
    /\ pub.done
    /\ pub' = [pub EXCEPT !.pc = "returned"]
    /\ UNCHANGED <<storeVars, lastUpdate, snapshot, heap, now, mut, rd, reply>>

\* StartSnapshotLoop.
PublisherLoop ==
    PubTickerFires \/ PubSelectTick \/ PubSelectDone \/ PubBuild \/ PubUnlock
        \/ PubStore

NextCancel == Cancel \/ MutatorLoop \/ PublisherLoop

\* A loop that can run does run, a Lock that is possible again and again
\* succeeds, and a select whose ctx.Done() is ready again and again takes
\* that case in the end (the choice among ready cases is uniformly random).
FairnessCancel ==
    /\ WF_vars(UpdLoad \/ UpdRemove \/ UpdInsert \/ UpdDec \/ UpdInc
                  \/ UpdUnlock \/ UpdStore)
    /\ WF_vars((\E id \in Ids(totalUsers), delta \in Deltas : MutItem(id, delta))
                  \/ MutStamp)
    /\ SF_vars(UpdLock)
    /\ SF_vars(PubBuild)
    /\ WF_vars(PubUnlock \/ PubStore)
    /\ SF_vars(MutSelectDone)
    /\ SF_vars(PubSelectDone)

SpecCancel == InitLive /\ [][NextCancel]_vars /\ FairnessCancel

\* C21: once ctx is cancelled, neither loop starts a further batch or a
\* further RefreshSnapshot; both loops eventually return, and a loop that
\* has returned does not hold bucketMu.
C21_StopAtNextTick ==
    /\ [][/\ mut.done => ~(mut.pc = "idle" /\ mut'.pc = "batch")
          /\ pub.done => ~(pub.pc = "idle" /\ pub'.pc = "lock")]_vars
    /\ mut.done ~> (mut.pc = "returned")
    /\ pub.done ~> (pub.pc = "returned")
    /\ [](/\ mut.pc = "returned" => bucketMu # "mutator"
          /\ pub.pc = "returned" => bucketMu # "publisher")

----------------------------------------------------------------------------
(* SpecOverlap: updateUserRating called by two goroutines at once *)

\* A whole updateUserRating(id, newRating) of a second goroutine, run while
\* the first is outside its critical section.
OtherCall(id, newRating) ==
    /\ mut.pc \in {"u_lock", "u_store"}
    /\ CanLock(bucketMu)
    /\ mut.calls < MaxCalls
    /\ IF /\ ratings[id] # newRating
          /\ RemovePanics(ratingBuckets, bucketIndex, id, ratings[id])
       THEN /\ mut' = [mut EXCEPT !.pc = "panic", !.calls = @ + 1]
            /\ UNCHANGED <<ratings, ratingBuckets, bucketIndex, ratingCounts>>
       ELSE /\ UpdateUserRating(id, newRating)
            /\ mut' = [mut EXCEPT !.calls = @ + 1]
    /\ UNCHANGED <<users, usernameLower, usernameIndex, totalUsers, bucketMu,
                   lastUpdate, snapshot, heap, now, pub, rd, reply>>

NextOverlap ==
    \/ \E id \in Ids(totalUsers), r \in DOMAIN ratingCounts : DirectCall(id, r)
    \/ \E id \in Ids(totalUsers), r \in DOMAIN ratingCounts : OtherCall(id, r)
    \/ UpdStep

SpecOverlap == InitCalls /\ [][NextOverlap]_vars

\* The positions (rating, k) of the buckets that hold id.
PlacesOf(id) ==
    {p \in UNION {{<<r, k>> : k \in 1 .. Len(ratingBuckets[r])} :
                     r \in DOMAIN ratingBuckets} :
        ratingBuckets[p[1]][p[2]] = id}

\* id is at position bucketIndex[id] of Bucket[r].
AtBackref(id, r) ==
    /\ bucketIndex[id] < Len(ratingBuckets[r])
    /\ ratingBuckets[r][bucketIndex[id] + 1] = id

\* C22: when the critical section of updateUserRating(id, rNew) is entered
\* while id is not at position bucketIndex[id] of Bucket[rOld], the call
\* aborts and leaves every bucket, back-reference and counter as it was.
C22_MisplacedIdAborts ==
    [][(mut.pc = "u_remove" /\ ~AtBackref(mut.id, mut.oldRating)) =>
          /\ mut'.pc = "panic"
          /\ UNCHANGED <<ratingBuckets, bucketIndex, ratingCounts>>]_vars

\* C30: when calls of updateUserRating have overlapped and all have
\* returned, every id is in exactly one bucket, at position bucketIndex[id]
\* of Bucket[ratings[id]], every counter equals the length of its bucket and
\* the counters sum to N.
C30_OverlappingCallsKeepInvariants ==
    (mut.pc = "idle" /\ bucketMu = Free) =>
        /\ \A id \in Ids(totalUsers) :
              /\ Cardinality(PlacesOf(id)) = 1
              /\ AtBackref(id, ratings[id])
        /\ \A r \in DOMAIN ratingCounts : ratingCounts[r] = Len(ratingBuckets[r])
        /\ SumOver(ratingCounts, DOMAIN ratingCounts) = totalUsers

\* id is in exactly one bucket, once, at position bucketIndex[id].
WellPlaced(id) ==
    /\ Cardinality(PlacesOf(id)) = 1
    /\ \A p \in PlacesOf(id) : p[2] = bucketIndex[id] + 1

\* C24: whenever bucketMu is not held, every id of [0,N) is in exactly one
\* bucket, exactly once, at position bucketIndex[id]; and the swap-with-last
\* removal of an id takes that id out of its bucket and leaves every other
\* id well placed, the one moved into the gap included, also when the
\* removed id is the last of its bucket.
C24_EveryIdInOneBucket ==
    /\ [](bucketMu = Free => \A id \in Ids(totalUsers) : WellPlaced(id))
    /\ [][(mut.pc = "u_remove") =>
             /\ PlacesOf(mut.id)' = {}
             /\ \A c \in Ids(totalUsers) \ {mut.id} : WellPlaced(c)'
             /\ Len(ratingBuckets'[mut.oldRating])
                   = Len(ratingBuckets[mut.oldRating]) - 1]_vars

\* Id 0 was removed from the front of the bucket <<0, 1, 2>>: id 2 was
\* moved into its place, and the lock has been released.
C24_Witness ==
    /\ bucketMu = Free /\ mut.pc = "u_store" /\ mut.id = 0
    /\ ratingBuckets[mut.oldRating] = <<2, 1>>
    /\ bucketIndex[2] = 0
    /\ \A id \in Ids(totalUsers) : WellPlaced(id)

\* The call in progress has moved its id but not yet stored the rating.
MovedNotStored(id) ==
    /\ mut.pc \in {"u_dec", "u_inc", "u_unlock", "u_store"}
    /\ mut.id = id

C26_CountsLagOnlyUnderLock ==
    /\ bucketMu # "mutator" =>
          \A r \in DOMAIN ratingCounts : ratingCounts[r] = Len(ratingBuckets[r])
    /\ SumOver(ratingCounts, DOMAIN ratingCounts) \in {totalUsers, totalUsers - 1}
    /\ SumOver(ratingCounts, DOMAIN ratingCounts) = totalUsers - 1
          => mut.pc = "u_inc" /\ bucketMu = "mutator"

\* Between the two counter updates of a call from the mutator's batch: the
\* counters sum to N - 1 while the publisher waits for bucketMu.
C26_Witness ==
    /\ mut.pc = "u_inc" /\ bucketMu = "mutator" /\ ~mut.direct
    /\ pub.pc = "lock"
    /\ SumOver(ratingCounts, DOMAIN ratingCounts) = totalUsers - 1
    /\ ratingCounts[mut.newRating] = Len(ratingBuckets[mut.newRating]) - 1

----------------------------------------------------------------------------
(* SpecRead: a request served while the mutator and the publisher run *)

\* SearchPage up to its loop over usernameIndex[startIdx:endIdx].
RdSearch(query, page, limit) ==
    /\ rd.pc = "idle"
    /\ LET out      == SearchPage(query, page, limit)
           lim      == IF limit <= 0 THEN DefaultLimit ELSE limit
           startIdx == out.start + PageOffset(out.page, lim)
       IN  rd' = IF out.results = <<>>
                 THEN [RdIdle EXCEPT !.pc = "done", !.op = "search"]
                 ELSE [RdIdle EXCEPT !.pc = "row", !.op = "search", !.i = startIdx,
                                     !.end = startIdx + Len(out.results)]
    /\ UNCHANGED <<storeVars, lastUpdate, snapshot, heap, now, mut, pub, reply>>

ConcSearchProbes == {<<bob, 1, 2>>}

\* The steps of a request once it is entered.
ReadStep == RdRow \/ RdSweep \/ RdSweepEnd \/ RdReturn

Reader ==
    \/ RdRank(50)
    \/ RdPage(1, 2)
    \/ \E probe \in ConcSearchProbes : RdSearch(probe[1], probe[2], probe[3])
    \/ ReadStep

\* buildApp with one user fewer than the other concurrent runs.
InitRead ==
    \E seeds \in GenSeeds(ConcUsers - 1, ConcSeedRatings) :
        LET st == NewStore(seeds, ConcWindow)
        IN  InitState(st, buildSnapshot(st.ratingBuckets, st.usernameLower), TRUE)

NextRead == Mutator \/ Publisher \/ Reader

\* The goroutine serving a request runs when it can; the mutator and the
\* publisher may stop anywhere, for any time, also inside a critical section.
FairnessRead == WF_vars(ReadStep)

SpecRead == InitRead /\ [][NextRead]_vars /\ FairnessRead

\* The steps a request in state r still has to take, at most.
Work(r) ==
    LET perRow == Cardinality(DOMAIN ratingCounts) + 2
    IN  IF r.pc = "idle" THEN 0
        ELSE IF r.pc \in {"hold", "done"} THEN 1
        ELSE IF r.op = "rank" THEN 2 + Cardinality(r.todo)
        ELSE IF r.pc = "row" THEN 2 + (r.end - r.i) * perRow
        ELSE 3 + (r.end - r.i - 1) * perRow + Cardinality(r.todo)

\* C23: rank, LeaderboardPage and SearchPage never acquire or wait for
\* bucketMu: no step of a request changes bucketMu or writes to the store
\* (ratings, counters, buckets, lastUpdate), a request that has
\* started always has a next step whoever holds bucketMu, each of its steps
\* brings it nearer to its end, and it returns even if the mutator or the
\* publisher stops for ever while holding bucketMu.
C23_ReadsNeverBlock ==
    /\ [][(mut' = mut /\ pub' = pub /\ rd' # rd) =>
             /\ UNCHANGED <<bucketMu, ratings, ratingCounts, ratingBuckets,
                            bucketIndex, lastUpdate>>
             /\ rd.pc # "idle" => Work(rd') < Work(rd)]_vars
    /\ [](rd.pc # "idle" => ENABLED ReadStep)
    /\ (rd.pc # "idle") ~> (rd.pc = "idle")

\* A search is in the middle of its counter sweep while an updateUserRating
\* call holds bucketMu and the publisher waits for it.
C23_Witness ==
    /\ rd.op = "search" /\ rd.pc = "sweep" /\ rd.todo # {}
    /\ bucketMu = "mutator"
    /\ pub.pc = "lock"

\* The mutator is at the end of a batch: the test of changed.
BatchEnds == mut.pc = "batch" /\ mut.left = 0

\* C27: lastUpdate is written only by the mutator at the end of a batch,
\* with the current time, and exactly when the batch changed a rating:
\* changed is set by the steps that store a rating and by no other, a batch
\* whose pairs were all skipped leaves lastUpdate as it was, and no step of
\* RefreshSnapshot or of a reader changes lastUpdate.
C27_LastUpdateIffChanged ==
    /\ [][/\ lastUpdate' # lastUpdate => BatchEnds /\ mut.changed
          /\ (BatchEnds /\ mut' # mut) =>
                lastUpdate' = IF mut.changed THEN now ELSE lastUpdate
          /\ ratings' # ratings => mut'.changed
          /\ (mut'.changed /\ ~mut.changed) => ratings' # ratings
          /\ (pub' # pub \/ rd' # rd \/ snapshot' # snapshot)
                => lastUpdate' = lastUpdate]_vars
    /\ [](mut.pc # "idle" => lastUpdate < now)

\* A batch that changed a rating has stamped lastUpdate, and a snapshot
\* published since has left the stamp alone.
C27_Witness ==
    /\ mut.pc = "idle" /\ now = 1 /\ lastUpdate = 1
    /\ pub.stored /\ pub.pc = "idle"
    /\ \E id \in Ids(totalUsers) : ratings[id] = 4980

----------------------------------------------------------------------------
(* The published order follows the ratings *)

\* SpecOrder: the mutator and the publisher under the same scheduling, over
\* two users whose ratings can pass each other.
SpecOrder == Init /\ [][NextLive]_vars /\ Fairness

\* The list is in descending order of the current ratings.
OrderedByRating(list) ==
    \A i, j \in 1 .. Len(list) : i < j => ratings[list[i]] >= ratings[list[j]]

\* Every id is in the bucket of its current rating.
BucketsMatchRatings ==
    \A id \in Ids(totalUsers) : InBucket(ratingBuckets, ratings[id], id)

\* C28: the published order lags the ratings by at most one refresh.  A
\* build made while the buckets agree with the ratings yields a list in
\* descending order of the current ratings, and the refresh publishes
\* exactly the list it built; so if the publisher keeps ticking and from
\* some point on no rating changes, the published snapshot is eventually
\* in descending order of the current ratings and remains so.
C28_EventuallyOrdered ==
    /\ [][(pub.pc = "lock" /\ pub'.pc = "unlock" /\ BucketsMatchRatings)
             => /\ OrderedByRating(heap'[pub'.buf])
                /\ IsPermutation(heap'[pub'.buf])]_vars
    /\ [][(pub.pc = "store" /\ pub'.pc = "idle")
             => snapshot' = pub.buf /\ heap'[snapshot'] = heap[pub.buf]]_vars
    /\ ([]<><<PubTick>>_vars /\ <>[][ratings' = ratings]_vars)
          => <>[](OrderedByRating(SnapshotIDs) /\ IsPermutation(SnapshotIDs))

\* After an update the published snapshot is out of order, and the
\* publisher is about to build the next one from buckets that agree with
\* the ratings.
C28_Witness ==
    /\ pub.pc = "lock" /\ pub.stored
    /\ mut.pc = "idle" /\ BucketsMatchRatings
    /\ ~OrderedByRating(SnapshotIDs)

----------------------------------------------------------------------------
(* SpecStore: every operation of the store, one call at a time *)

\* SearchPage called at any time.
SearchCall(query, page, limit) ==
    /\ reply' = [op |-> "search", query |-> query, pageArg |-> page,
                 limitArg |-> limit, out |-> SearchPage(query, page, limit)]
    /\ UNCHANGED <<storeVars, lastUpdate, snapshot, heap, now, mut, pub, rd>>

StoreQueries == {bob, Al}

NextStore ==
    \/ NextSeq
    \/ \E query \in StoreQueries : SearchCall(query, 1, 2)

SpecStore == InitSeq /\ [][NextStore]_vars

\* usernameIndex is in ascending order of (UsernameLower, ID).
IndexSorted ==
    \A i, j \in 1 .. Len(usernameIndex) :
        i < j =>
            LET a == usernameIndex[i]
                b == usernameIndex[j]
            IN  \/ StrLess(a.UsernameLower, b.UsernameLower)
                \/ a.UsernameLower = b.UsernameLower /\ a.ID < b.ID

\* usernameIndex holds every id of [0, totalUsers) once, with its
\* lower-cased name.
IndexComplete ==
    /\ Len(usernameIndex) = totalUsers
    /\ \A id \in Ids(totalUsers) :
          Cardinality({i \in 1 .. Len(usernameIndex) : usernameIndex[i].ID = id}) = 1
    /\ \A i \in 1 .. Len(usernameIndex) :
          /\ usernameIndex[i].ID \in Ids(totalUsers)
          /\ usernameIndex[i].UsernameLower = usernameLower[usernameIndex[i].ID]

\* C29: only ratings are mutable.  In every reachable state usernameIndex
\* is sorted ascending by (usernameLower, id) and holds every id of
\* [0, totalUsers) exactly once, usernameLower[id] is the lower-cased
\* display name of id; and no step of updateUserRating, RefreshSnapshot,
\* rank, LeaderboardPage or SearchPage changes users, usernameLower,
\* usernameIndex or totalUsers.
C29_OnlyRatingsMutable ==
    /\ [](/\ IndexSorted
          /\ IndexComplete
          /\ \A id \in Ids(totalUsers) :
                /\ users[id].ID = id
                /\ usernameLower[id] = ToLower(users[id].Username))
    /\ [][UNCHANGED <<users, usernameLower, usernameIndex, totalUsers>>]_vars

\* Two users whose names differ only in letter case, held in id order
\* behind a user of a higher id, after a rating has been updated and a
\* search served.
C29_Witness ==
    /\ reply.op = "search" /\ mut.calls > 0
    /\ \E i \in 1 .. (Len(usernameIndex) - 1) :
          /\ usernameIndex[i].UsernameLower = usernameIndex[i + 1].UsernameLower
          /\ usernameIndex[i].ID < usernameIndex[i + 1].ID
    /\ usernameIndex[1].ID > usernameIndex[2].ID

----------------------------------------------------------------------------
(* The ranks of the rows of a page *)

\* C31: every rank attached to a row of LeaderboardPage or SearchPage lies
\* in [1, totalUsers], also when the counter sweep of rank is interleaved
\* with the mutator's updates.
C31_RowRanksWithinN ==
    rd.op \in {"page", "search"} =>
        \A k \in 1 .. Len(rd.rows) :
            rd.rows[k].Rank >= 1 /\ rd.rows[k].Rank <= totalUsers

----------------------------------------------------------------------------
(* The storage of a snapshot *)

\* An update has moved a user since the reader loaded its list.
MovedSince(list) ==
    \E i, j \in 1 .. Len(list) : i < j /\ ratings[list[i]] < ratings[list[j]]

\* C32: a published snapshot is immutable.  The list returned by
\* buildSnapshot, the published list and a list a reader holds point into
\* an array made by a build, never into the array of a rating bucket; and
\* no step of updateUserRating or RefreshSnapshot changes the contents of
\* the list a reader holds or of the list that stays published.
C32_SnapshotImmutable ==
    /\ [](/\ snapshot \in Addrs
          /\ pub.buf \in Addrs \cup {NoAddr}
          /\ rd.ref \in Addrs \cup {NoAddr})
    /\ [][/\ (rd.ref # NoAddr /\ rd'.ref = rd.ref)
                => heap'[rd.ref] = heap[rd.ref]
          /\ (snapshot' = snapshot) => heap'[snapshot] = heap[snapshot]]_vars

\* A reader holds the list of a build that took a bucket of one member;
\* since then an update has moved a user past another and a refresh has
\* published a different list.
C32_Witness ==
    /\ rd.pc = "hold" /\ rd.ref # snapshot
    /\ heap[rd.ref] = rd.seen /\ Len(rd.seen) = totalUsers
    /\ MovedSince(rd.seen)
    /\ ~MovedSince(SnapshotIDs) /\ SnapshotIDs # rd.seen
    /\ \E r \in DOMAIN ratingBuckets : Len(ratingBuckets[r]) = 1

====
